---- MODULE Spec2Model ----
(***************************************************************************)
(* Model of How-to-validate-an-email-address-in-C.c: the validator         *)
(* is_valid_email, the prompt loop get_email_input and main.               *)
(*                                                                         *)
(* A C string is a sequence of one-character strings; C index i of a       *)
(* string s is s[i + 1].  The terminating NUL is not part of the sequence. *)
(***************************************************************************)
EXTENDS Integers, Sequences, FiniteSets, TLC

\* ------------------------------------------------------------------------
\* Program constants (#define)
\* ------------------------------------------------------------------------
MAX_EMAIL_LENGTH == 256

MIN_EMAIL_LENGTH == 5

\* ------------------------------------------------------------------------
\* <ctype.h> in the "C" locale, on the characters the model uses
\* ------------------------------------------------------------------------
Lower ==
    {"a","b","c","d","e","f","g","h","i","j","k","l","m",
     "n","o","p","q","r","s","t","u","v","w","x","y","z"}

Upper ==
    {"A","B","C","D","E","F","G","H","I","J","K","L","M",
     "N","O","P","Q","R","S","T","U","V","W","X","Y","Z"}

Digit ==
    {"0","1","2","3","4","5","6","7","8","9"}

AlNum == Lower \cup Upper \cup Digit

Space == {" ", "\t", "\n", "\r", "\f"}

isalnum(c) == c \in AlNum

isspace(c) == c \in Space

\* The null pointer, distinct from every string.
NULL == <<"NULL">>

\* The terminating '\0' of a C string.
NUL == "NUL"

\* email[i], C indexing; email[strlen(email)] is the terminator.
At(email, i) == IF i = Len(email) THEN NUL ELSE email[i + 1]

\* Smallest element of a non-empty set of integers.
Min(S) == CHOOSE x \in S : \A y \in S : x <= y

\* One read of email[idx] made by the statement at source line `line`.
Rd(line, idx) == [line |-> line, idx |-> idx]

\* The reads of a loop `for (i = lo; i <= hi; i++)` at `line` that reads
\* email[i] each round and returns at the first round whose i is in stop.
ScanReads(line, lo, hi, stop) ==
    LET last == IF stop = {} THEN hi ELSE Min(stop)
    IN  {Rd(line, i) : i \in lo..last}

\* The reads of a consecutive-dot loop over i in lo..hi: email[i] each round,
\* email[i + 1] only when email[i] is '.', returning at the first round in
\* stop.
PairReads(line, email, lo, hi, stop) ==
    LET last == IF stop = {} THEN hi ELSE Min(stop)
    IN  {Rd(line, i) : i \in lo..last}
          \cup {Rd(line, i + 1) : i \in {j \in lo..last : At(email, j) = "."}}

\* What a call leaves behind: the value returned and the reads it made.
Ret(v, rs) == [ret |-> v, reads |-> rs]

\* ------------------------------------------------------------------------
\* is_valid_email, lines 44-139: everything after the length check
\* ------------------------------------------------------------------------

\* for (i = 0; i < len - 1 ...) bound of the local consecutive-dot loop:
\* the last value of i, at_pos - 2.
local_dots_last(at_pos) == at_pos - 2

\* Mutants of tld_too_short: the bound off by one, either way.
tld_too_short_lt3(domain_len, last_dot_pos) == domain_len - last_dot_pos - 1 < 3

tld_too_short_lt1(domain_len, last_dot_pos) == domain_len - last_dot_pos - 1 < 1

\* TLD (Top Level Domain) must be at least 2 characters: the rejecting test.
tld_too_short(domain_len, last_dot_pos) == domain_len - last_dot_pos - 1 < 2

\* Allowed characters of the local part.
local_char_ok(c) == isalnum(c) \/ c = "." \/ c = "-" \/ c = "_" \/ c = "+"

\* Mutant of domain_char_ok: the local part's class used for the domain.
domain_char_ok_as_local(c) ==
    isalnum(c) \/ c = "." \/ c = "-" \/ c = "_" \/ c = "+"

\* Allowed characters of the domain part.
domain_char_ok(c) == isalnum(c) \/ c = "." \/ c = "-"

\* Mutant of at_on_edge: the test for a trailing '@' forgotten.
at_on_edge_begin_only(at_pos, len) == at_pos = 0

\* '@' cannot be at the beginning or end.
at_on_edge(at_pos, len) == at_pos = 0 \/ at_pos = len - 1

structure_checks(email) ==
    LET len      == Len(email)
        spaces   == {i \in 0..(len - 1) : isspace(At(email, i))}
        r1       == ScanReads(50, 0, len - 1, spaces)
        ats      == {i \in 0..(len - 1) : At(email, i) = "@"}
        at_count == Cardinality(ats)
        at_pos   == IF ats = {} THEN -1 ELSE -Min({-i : i \in ats})
    IN
    IF spaces # {} THEN Ret(FALSE, r1)
    ELSE IF at_count # 1 THEN Ret(FALSE, r1)
    ELSE IF at_on_edge(at_pos, len) THEN Ret(FALSE, r1)
    ELSE
    LET r2 == r1 \cup {Rd(72, 0)}
                 \cup (IF At(email, 0) = "." THEN {} ELSE {Rd(72, at_pos - 1)})
    IN
    IF At(email, 0) = "." \/ At(email, at_pos - 1) = "." THEN Ret(FALSE, r2)
    ELSE
    LET lhi   == local_dots_last(at_pos)
        ldots == {i \in 0..lhi : At(email, i) = "." /\ At(email, i + 1) = "."}
        r3    == r2 \cup PairReads(78, email, 0, lhi, ldots)
    IN
    IF ldots # {} THEN Ret(FALSE, r3)
    ELSE
    LET domain     == at_pos + 1        \* domain[j] is email[domain + j]
        domain_len == len - at_pos - 1
        d0         == At(email, domain)
        r4 == r3 \cup {Rd(88, domain)}
                 \cup (IF d0 = "." \/ d0 = "-" THEN {}
                       ELSE {Rd(89, domain + domain_len - 1)})
    IN
    IF d0 = "." \/ d0 = "-"
         \/ At(email, domain + domain_len - 1) = "."
         \/ At(email, domain + domain_len - 1) = "-"
    THEN Ret(FALSE, r4)
    ELSE
    LET dots         == {j \in 0..(domain_len - 1) : At(email, domain + j) = "."}
        dot_count    == Cardinality(dots)
        last_dot_pos == IF dots = {} THEN -1 ELSE -Min({-j : j \in dots})
        r5           == r4 \cup ScanReads(98, domain, domain + domain_len - 1, {})
    IN
    IF dot_count = 0 THEN Ret(FALSE, r5)
    ELSE IF tld_too_short(domain_len, last_dot_pos) THEN Ret(FALSE, r5)
    ELSE
    LET ddots == {i \in domain..(domain + domain_len - 2) :
                     At(email, i) = "." /\ At(email, i + 1) = "."}
        r6    == r5 \cup PairReads(116, email, domain, domain + domain_len - 2, ddots)
    IN
    IF ddots # {} THEN Ret(FALSE, r6)
    ELSE
    LET lbad == {i \in 0..(at_pos - 1) : ~local_char_ok(At(email, i))}
        r7   == r6 \cup ScanReads(124, 0, at_pos - 1, lbad)
    IN
    IF lbad # {} THEN Ret(FALSE, r7)
    ELSE
    LET dbad == {i \in domain..(domain + domain_len - 1) :
                    ~domain_char_ok(At(email, i))}
        r8   == r7 \cup ScanReads(133, domain, domain + domain_len - 1, dbad)
    IN
    IF dbad # {} THEN Ret(FALSE, r8)
    ELSE Ret(TRUE, r8)

\* ------------------------------------------------------------------------
\* is_valid_email, lines 30-42: null guard and length check
\* ------------------------------------------------------------------------

\* Mutant of length_rejected: the minimum taken as exclusive.
length_rejected_min_exclusive(len) ==
    len <= MIN_EMAIL_LENGTH \/ len > MAX_EMAIL_LENGTH

\* Check minimum and maximum length constraints: the rejecting test.
length_rejected(len) == len < MIN_EMAIL_LENGTH \/ len > MAX_EMAIL_LENGTH

is_valid_email_run(email) ==
    IF email = NULL THEN Ret(FALSE, {})
    ELSE IF length_rejected(Len(email)) THEN Ret(FALSE, {})
    ELSE structure_checks(email)

is_valid_email(email) == is_valid_email_run(email).ret

\* ------------------------------------------------------------------------
\* get_email_input and main: the standard input stream
\* ------------------------------------------------------------------------

\* sizeof(input_buffer): char input_buffer[MAX_EMAIL_LENGTH + 2].
input_buffer_size == MAX_EMAIL_LENGTH + 2

\* sizeof(user_email), the buffer_size main passes.
user_email_size == MAX_EMAIL_LENGTH

\* The content of a buffer nothing was stored in yet.
UNSET == <<"UNSET">>

\* The number of characters from in[p + 1] up to and including the first
\* newline among the next `limit` characters; `limit` when there is none.
through_newline(in, p, limit) ==
    LET nls == {i \in 1..limit : in[p + i] = "\n"}
    IN  IF nls = {} THEN limit ELSE Min(nls)

\* fgets(buf, size, stdin) with `p` characters of `in` consumed: the number of
\* characters it stores, at most size - 1, stopping after a newline or at
\* end-of-input.  0 is the NULL return.
fgets_len(in, p, size) ==
    LET avail == Len(in) - p
    IN  through_newline(in, p, IF avail > size - 1 THEN size - 1 ELSE avail)

\* while ((c = getchar()) != '\n' && c != EOF); with `p` characters consumed:
\* the number of characters it consumes.
drain_len(in, p) == through_newline(in, p, Len(in) - p)

\* Remove trailing newline character if present.
strip_newline(buf) ==
    IF Len(buf) > 0 /\ buf[Len(buf)] = "\n"
    THEN SubSeq(buf, 1, Len(buf) - 1)
    ELSE buf

\* Mutant of too_long: a line of MAX_EMAIL_LENGTH characters let through.
too_long_gt(input_len) == input_len > MAX_EMAIL_LENGTH

\* Check if input was too long.
too_long(input_len) == input_len >= MAX_EMAIL_LENGTH

\* ------------------------------------------------------------------------
\* Bounds of the model and the inputs it draws
\* ------------------------------------------------------------------------

\* Every string up to this length over Alphabet is a candidate.
MaxLen == 5

\* Every local part up to this length is tried before fixed domains.
MaxLocal == 2

\* Every domain part up to this length is tried after fixed local parts.
MaxDomain == 4

\* Long strings have lengths within Slack of MAX_EMAIL_LENGTH.
Slack == 1

\* The standard input holds at most this many lines.
MaxLines == 3

\* A letter, a digit, '@', '.', '-', '_', '+', a whitespace and another symbol.
Alphabet == {"a", "1", "@", ".", "-", "_", "+", " ", "!"}

Strings(A, lo, hi) == UNION {[1..n -> A] : n \in lo..hi}

ShortCandidates == Strings(Alphabet, 0, MaxLen)

Domains ==
    { <<"b",".","c","c">>, <<"b",".","c">>,
      <<"b","-","1",".","c","c","c">>, <<"b","_",".","c","c">> }

Locals ==
    { <<"_","+">>, <<"a",".","1">> }

LocalCandidates ==
    { l \o <<"@">> \o d : l \in Strings(Alphabet, 1, MaxLocal), d \in Domains }

DomainCandidates ==
    { l \o <<"@">> \o d : l \in Locals, d \in Strings(Alphabet, 1, MaxDomain) }

\* n copies of c.
Pad(c, n) == [i \in 1..n |-> c]

\* Ends of the long candidates: a valid domain, a one-character TLD, a
\* domain without a dot, a domain with '_', and no '@' at all.
Tails ==
    { <<"@","b",".","c","c">>, <<"@","b",".","c">>, <<"@","b","c","c">>,
      <<"@","b","_","c",".","c","c">>, <<"b",".","c","c">> }

LongCandidates ==
    { Pad("a", n - Len(t)) \o t :
        n \in (MAX_EMAIL_LENGTH - Slack)..(MAX_EMAIL_LENGTH + Slack), t \in Tails }

\* The literal scenarios.
\* "user@example.com"
S_user_example_com ==
    <<"u","s","e","r","@","e","x","a","m","p","l","e",".","c","o","m">>

\* "user.name+tag@sub.example.co"
S_user_name_tag ==
    <<"u","s","e","r",".","n","a","m","e","+","t","a","g","@","s","u","b",".","e","x","a","m","p","l","e",".","c","o">>

\* "@example.com"
S_no_local ==
    <<"@","e","x","a","m","p","l","e",".","c","o","m">>

\* "user@example"
S_no_dot ==
    <<"u","s","e","r","@","e","x","a","m","p","l","e">>

\* "user@.example.com"
S_dot_domain ==
    <<"u","s","e","r","@",".","e","x","a","m","p","l","e",".","c","o","m">>

\* "us er@example.com"
S_space ==
    <<"u","s"," ","e","r","@","e","x","a","m","p","l","e",".","c","o","m">>

\* "user@@example.com"
S_two_ats ==
    <<"u","s","e","r","@","@","e","x","a","m","p","l","e",".","c","o","m">>

\* "a@b.c"
S_a_b_c ==
    <<"a","@","b",".","c">>

\* "user@example.c"
S_short_tld ==
    <<"u","s","e","r","@","e","x","a","m","p","l","e",".","c">>

\* "user..name@example.com"
S_dot_dot ==
    <<"u","s","e","r",".",".","n","a","m","e","@","e","x","a","m","p","l","e",".","c","o","m">>

ScenariosAccepted == {S_user_example_com, S_user_name_tag}

ScenariosRejected ==
    {S_no_local, S_no_dot, S_dot_domain, S_space, S_two_ats, S_a_b_c,
     S_short_tld, S_dot_dot}

Scenarios == ScenariosAccepted \cup ScenariosRejected

Candidates ==
    ShortCandidates \cup LocalCandidates \cup DomainCandidates
      \cup LongCandidates \cup Scenarios \cup {NULL}

\* The lines of the standard input: empty, a valid address, an invalid one,
\* and well-formed addresses one character shorter than MAX_EMAIL_LENGTH up
\* to as long as input_buffer.
Lines ==
    { <<>>, <<"1","@","b",".","c","c">>, <<"a","@","b",".","c">> }
      \cup { Pad("a", n - 5) \o <<"@","b",".","c","c">> :
               n \in (MAX_EMAIL_LENGTH - 1)..input_buffer_size }

\* The characters of the lines ls, each followed by a newline, the last one
\* only when `term`.
RECURSIVE Join(_, _)
Join(ls, term) ==
    IF ls = <<>> THEN <<>>
    ELSE IF Len(ls) = 1 THEN (IF term THEN Append(ls[1], "\n") ELSE ls[1])
    ELSE Append(ls[1], "\n") \o Join(Tail(ls), term)

Inputs ==
    { Join(ls, term) : ls \in Strings(Lines, 0, MaxLines), term \in BOOLEAN }

\* ------------------------------------------------------------------------
\* State
\* ------------------------------------------------------------------------
VARIABLES
    email,        \* the argument of the last call of is_valid_email
    vpc,          \* "idle": no call yet, "call": about to run, "ret": returned
    verdict,      \* the value that call returned
    reads,        \* the reads of email that call made
    stdin,        \* every character of the standard input
    pos,          \* how many of them were consumed
    pc,           \* "main", "loop" (get_email_input's loop head), "returned", "exited"
    input_buffer, \* get_email_input's input_buffer
    user_email,   \* main's user_email
    result,       \* what get_email_input returned
    status,       \* the exit status of main
    out           \* the messages printed so far

vvars == <<email, vpc, verdict, reads>>

iovars == <<stdin, pos, pc, input_buffer, user_email, result, status, out>>

vars == <<email, vpc, verdict, reads,
          stdin, pos, pc, input_buffer, user_email, result, status, out>>

\* ------------------------------------------------------------------------
\* Calls of is_valid_email on the candidates
\* ------------------------------------------------------------------------
Init ==
    /\ email \in Candidates
    /\ vpc = "call"
    /\ verdict = FALSE
    /\ reads = {}
    /\ stdin = <<>>
    /\ pos = 0
    /\ pc = "idle"
    /\ input_buffer = UNSET
    /\ user_email = UNSET
    /\ result = FALSE
    /\ status = -1
    /\ out = <<>>

\* One call of is_valid_email(email).
Validate ==
    /\ vpc = "call"
    /\ vpc' = "ret"
    /\ verdict' = is_valid_email_run(email).ret
    /\ reads' = is_valid_email_run(email).reads
    /\ UNCHANGED email
    /\ UNCHANGED iovars

Next == Validate

Spec == Init /\ [][Next]_vars

\* ------------------------------------------------------------------------
\* A run of main on an input
\* ------------------------------------------------------------------------
InitIO ==
    /\ email = <<>>
    /\ vpc = "idle"
    /\ verdict = FALSE
    /\ reads = {}
    /\ stdin \in Inputs
    /\ pos = 0
    /\ pc = "main"
    /\ input_buffer = UNSET
    /\ user_email = UNSET
    /\ result = FALSE
    /\ status = -1
    /\ out = <<>>

\* What the fgets of a round stores when it reads n characters, and the line
\* left after the strip.
Chunk(n) == SubSeq(stdin, pos + 1, pos + n)

\* main prints its banner and calls get_email_input(user_email,
\* sizeof(user_email)), which checks its parameters.
Call ==
    /\ pc = "main"
    /\ IF user_email_size <= 0
       THEN /\ pc' = "returned"
            /\ out' = out \o <<"banner", "buffer_params">>
       ELSE /\ pc' = "loop"
            /\ out' = out \o <<"banner">>
    /\ result' = FALSE
    /\ UNCHANGED <<stdin, pos, input_buffer, user_email, status>>
    /\ UNCHANGED vvars

\* fgets returns NULL: get_email_input returns false.
ReadFailed ==
    /\ pc = "loop"
    /\ fgets_len(stdin, pos, input_buffer_size) = 0
    /\ pc' = "returned"
    /\ result' = FALSE
    /\ out' = out \o <<"prompt", "read_failed">>
    /\ UNCHANGED <<stdin, pos, input_buffer, user_email, status>>
    /\ UNCHANGED vvars

\* The line is too long: the rest of the input up to a newline is discarded.
ReadTooLong ==
    /\ pc = "loop"
    /\ LET n    == fgets_len(stdin, pos, input_buffer_size)
           line == strip_newline(Chunk(n))
       IN  /\ n > 0
           /\ too_long(Len(line))
           /\ input_buffer' = line
           /\ pos' = pos + n + drain_len(stdin, pos + n)
    /\ out' = out \o <<"prompt", "too_long">>
    /\ UNCHANGED <<stdin, pc, user_email, result, status>>
    /\ UNCHANGED vvars

\* The line is empty.
ReadEmpty ==
    /\ pc = "loop"
    /\ LET n    == fgets_len(stdin, pos, input_buffer_size)
           line == strip_newline(Chunk(n))
       IN  /\ n > 0
           /\ ~too_long(Len(line))
           /\ Len(line) = 0
           /\ input_buffer' = line
           /\ pos' = pos + n
    /\ out' = out \o <<"prompt", "empty">>
    /\ UNCHANGED <<stdin, pc, user_email, result, status>>
    /\ UNCHANGED vvars

\* is_valid_email accepts the line: it is copied to email_buffer when it
\* fits, and get_email_input returns.
ReadValid ==
    /\ pc = "loop"
    /\ LET n    == fgets_len(stdin, pos, input_buffer_size)
           line == strip_newline(Chunk(n))
           run  == is_valid_email_run(line)
       IN  /\ n > 0
           /\ ~too_long(Len(line))
           /\ Len(line) # 0
           /\ run.ret
           /\ input_buffer' = line
           /\ pos' = pos + n
           /\ email' = line
           /\ verdict' = run.ret
           /\ reads' = run.reads
           /\ IF Len(line) >= user_email_size
              THEN /\ result' = FALSE
                   /\ user_email' = user_email
                   /\ out' = out \o <<"prompt", "buffer_small">>
              ELSE /\ result' = TRUE
                   /\ user_email' = line
                   /\ out' = out \o <<"prompt", "valid">>
    /\ vpc' = "ret"
    /\ pc' = "returned"
    /\ UNCHANGED <<stdin, status>>

\* is_valid_email rejects the line: the hints are printed.
ReadInvalid ==
    /\ pc = "loop"
    /\ LET n    == fgets_len(stdin, pos, input_buffer_size)
           line == strip_newline(Chunk(n))
           run  == is_valid_email_run(line)
       IN  /\ n > 0
           /\ ~too_long(Len(line))
           /\ Len(line) # 0
           /\ ~run.ret
           /\ input_buffer' = line
           /\ pos' = pos + n
           /\ email' = line
           /\ verdict' = run.ret
           /\ reads' = run.reads
    /\ vpc' = "ret"
    /\ out' = out \o <<"prompt", "invalid">>
    /\ UNCHANGED <<stdin, pc, user_email, result, status>>

\* main prints the outcome and returns 0 or 1.
Exit ==
    /\ pc = "returned"
    /\ pc' = "exited"
    /\ status' = IF result THEN 0 ELSE 1
    /\ out' = out \o <<IF result THEN "success" ELSE "terminated">>
    /\ UNCHANGED <<stdin, pos, input_buffer, user_email, result>>
    /\ UNCHANGED vvars

NextIO ==
    \/ Call
    \/ ReadFailed
    \/ ReadTooLong
    \/ ReadEmpty
    \/ ReadValid
    \/ ReadInvalid
    \/ Exit

SpecIO == InitIO /\ [][NextIO]_vars

\* ------------------------------------------------------------------------
\* The checks of the validator as rules on a string s (1-based): the local
\* part is what precedes the first '@', the domain part what follows it
\* ------------------------------------------------------------------------
AtIdx(s) == {i \in 1..Len(s) : s[i] = "@"}

FirstAt(s) == IF AtIdx(s) = {} THEN 0 ELSE Min(AtIdx(s))

LocalPart(s) == IF FirstAt(s) = 0 THEN <<>> ELSE SubSeq(s, 1, FirstAt(s) - 1)

DomainPart(s) == IF FirstAt(s) = 0 THEN <<>> ELSE SubSeq(s, FirstAt(s) + 1, Len(s))

DotIdx(t) == {i \in 1..Len(t) : t[i] = "."}

\* The number of characters after the last '.' of t (all of t without one).
TldLen(t) == IF DotIdx(t) = {} THEN Len(t) ELSE Min({Len(t) - i : i \in DotIdx(t)})

DoubleDot(t) == \E i \in 1..(Len(t) - 1) : t[i] = "." /\ t[i + 1] = "."

Check2(s) == MIN_EMAIL_LENGTH <= Len(s) /\ Len(s) < MAX_EMAIL_LENGTH

Check3(s) == \A i \in 1..Len(s) : s[i] \notin Space

Check4(s) == Cardinality(AtIdx(s)) = 1

Check5(s) == FirstAt(s) # 1 /\ FirstAt(s) # Len(s)

Check6(s) ==
    LET l == LocalPart(s) IN l = <<>> \/ (l[1] # "." /\ l[Len(l)] # ".")

Check7(s) == ~DoubleDot(LocalPart(s))

Check8(s) ==
    LET d == DomainPart(s)
    IN  d = <<>> \/ (d[1] \notin {".", "-"} /\ d[Len(d)] \notin {".", "-"})

Check9(s) == DotIdx(DomainPart(s)) # {}

Check10(s) == TldLen(DomainPart(s)) >= 2

Check11(s) == ~DoubleDot(DomainPart(s))

Check12(s) ==
    LET l == LocalPart(s)
    IN  \A i \in 1..Len(l) : l[i] \in AlNum \cup {".", "-", "_", "+"}

Check13(s) ==
    LET d == DomainPart(s)
    IN  \A i \in 1..Len(d) : d[i] \in AlNum \cup {".", "-"}

\* Every rule but the one on the top-level domain's length.
OtherRules(s) ==
    /\ Check2(s) /\ Check3(s) /\ Check4(s) /\ Check5(s) /\ Check6(s)
    /\ Check7(s) /\ Check8(s) /\ Check9(s) /\ Check11(s) /\ Check12(s)
    /\ Check13(s)

AllChecks(s) == OtherRules(s) /\ Check10(s)

\* A call of is_valid_email on a string has returned.
Returned == vpc = "ret" /\ email # NULL

\* ------------------------------------------------------------------------
\* C1
\* ------------------------------------------------------------------------

\* C1: is_valid_email returns true exactly when checks 2-13 all hold, the
\* length bound being MIN_EMAIL_LENGTH <= length < MAX_EMAIL_LENGTH.
C1_VerdictIsConjunction ==
    Returned => (verdict <=> AllChecks(email))

\* Apart from strings of exactly MAX_EMAIL_LENGTH characters the verdict is
\* the conjunction of the checks.
VerdictIsConjunctionBelowMax ==
    Returned /\ Len(email) # MAX_EMAIL_LENGTH => (verdict <=> AllChecks(email))

\* ------------------------------------------------------------------------
\* C2
\* ------------------------------------------------------------------------

\* C2: every accepted candidate has MIN_EMAIL_LENGTH <= length <
\* MAX_EMAIL_LENGTH: shorter ones and ones of MAX_EMAIL_LENGTH characters or
\* more are rejected.
C2_LengthBounds ==
    Returned /\ verdict =>
        MIN_EMAIL_LENGTH <= Len(email) /\ Len(email) < MAX_EMAIL_LENGTH

\* ------------------------------------------------------------------------
\* C3
\* ------------------------------------------------------------------------

\* C3: a candidate that satisfies every other rule is accepted when 2 or
\* more characters follow the last '.' of its domain part and rejected when
\* exactly 1 does.
C3_TldBoundary ==
    Returned /\ OtherRules(email) =>
        /\ TldLen(DomainPart(email)) >= 2 => verdict
        /\ TldLen(DomainPart(email)) = 1 => ~verdict

\* A candidate with a top-level domain of exactly 2 characters was accepted.
C3_Witness ==
    /\ Returned /\ OtherRules(email)
    /\ TldLen(DomainPart(email)) = 2
    /\ verdict

\* ------------------------------------------------------------------------
\* C4
\* ------------------------------------------------------------------------

\* The call rejected at the test of the top-level domain's length: the
\* domain was scanned for its dots, the scan for consecutive dots never began.
RejectedAtTld ==
    /\ ~verdict
    /\ \E r \in reads : r.line = 98
    /\ \A r \in reads : r.line \notin {116, 124, 133}

ScenarioVerdicts ==
    /\ email \in ScenariosAccepted => verdict
    /\ email \in ScenariosRejected => ~verdict

\* C4 as stated: the scenarios get their verdicts, and "a@b.c" is rejected
\* both for its top-level domain and for a length below the minimum.
C4_Original ==
    vpc = "ret" =>
        /\ ScenarioVerdicts
        /\ email = S_a_b_c =>
              /\ TldLen(DomainPart(email)) < 2
              /\ length_rejected(Len(email))

\* C4 amended: the scenarios get their verdicts, and "a@b.c" is rejected by
\* the test of its top-level domain alone: its length equals the minimum and
\* passes the length check.
C4_Scenarios ==
    vpc = "ret" =>
        /\ ScenarioVerdicts
        /\ email = S_a_b_c =>
              /\ TldLen(DomainPart(email)) < 2
              /\ RejectedAtTld
              /\ Len(email) = MIN_EMAIL_LENGTH
              /\ ~length_rejected(Len(email))

\* The call on "a@b.c" has returned.
C4_Witness ==
    vpc = "ret" /\ email = S_a_b_c /\ ~verdict

\* ------------------------------------------------------------------------
\* C5
\* ------------------------------------------------------------------------

\* s with its i-th character replaced by c.
Replace(s, i, c) == [s EXCEPT ![i] = c]

\* C5: a candidate whose domain part holds a character that is no letter,
\* digit, '.' or '-' is rejected; an accepted candidate stays accepted with
\* '_' or '+' at any place of its local part.
C5_ClassAsymmetry ==
    Returned =>
        /\ (\E i \in 1..Len(DomainPart(email)) :
               DomainPart(email)[i] \notin AlNum \cup {".", "-"}) => ~verdict
        /\ verdict =>
              \A i \in 1..Len(LocalPart(email)) : \A c \in {"_", "+"} :
                  is_valid_email(Replace(email, i, c))

\* A candidate whose local part is "_+" was accepted.
C5_Witness ==
    /\ Returned /\ verdict
    /\ LocalPart(email) = <<"_", "+">>

\* ------------------------------------------------------------------------
\* C9
\* ------------------------------------------------------------------------

\* C9: every accepted string has at least 6 characters, and a string shorter
\* than MIN_EMAIL_LENGTH is rejected by the checks after the length check too.
C9_AcceptedAtLeastSix ==
    Returned =>
        /\ verdict => Len(email) >= 6
        /\ Len(email) < MIN_EMAIL_LENGTH => ~structure_checks(email).ret

\* A string of MIN_EMAIL_LENGTH characters that meets every rule but the one
\* on the top-level domain was rejected.
C9_Witness ==
    /\ Returned /\ ~verdict
    /\ Len(email) = MIN_EMAIL_LENGTH
    /\ OtherRules(email)

\* ------------------------------------------------------------------------
\* C10
\* ------------------------------------------------------------------------

\* C10: every read of the call is at an index in 0..len-1; the scan of the
\* local part for consecutive dots reads inside the local part, the scan of
\* the domain part inside the domain part.
C10_ReadsInBounds ==
    Returned =>
        \A r \in reads :
            /\ 0 <= r.idx /\ r.idx <= Len(email) - 1
            /\ r.line = 78 => r.idx < FirstAt(email) - 1
            /\ r.line = 116 => r.idx > FirstAt(email) - 1

\* A call that read email[at_pos - 1], domain[0] and domain[domain_len - 1]
\* and, in both scans for consecutive dots, the character after a '.'.
C10_Witness ==
    /\ Returned
    /\ Rd(72, FirstAt(email) - 2) \in reads
    /\ Rd(88, FirstAt(email)) \in reads
    /\ Rd(89, Len(email) - 1) \in reads
    /\ \E r \in reads : r.line = 78 /\ r.idx >= 1 /\ At(email, r.idx - 1) = "."
    /\ \E r \in reads : r.line = 116 /\ r.idx >= 1 /\ At(email, r.idx - 1) = "."

\* ------------------------------------------------------------------------
\* The lines of an input: the runs of characters between newlines, a last
\* run without a newline included when it is not empty
\* ------------------------------------------------------------------------
NlIdx(in) == {i \in 1..Len(in) : in[i] = "\n"}

\* The position of the k-th newline of in; 0 for k = 0, Len(in) past the last.
NthNl(in, k) ==
    IF k = 0 THEN 0
    ELSE IF k > Cardinality(NlIdx(in)) THEN Len(in)
    ELSE CHOOSE p \in NlIdx(in) : Cardinality({q \in NlIdx(in) : q <= p}) = k

LineCount(in) ==
    Cardinality(NlIdx(in))
      + (IF in # <<>> /\ in[Len(in)] # "\n" THEN 1 ELSE 0)

\* The k-th line of in, without its newline.
LineOf(in, k) ==
    SubSeq(in, NthNl(in, k - 1) + 1,
           IF k > Cardinality(NlIdx(in)) THEN Len(in) ELSE NthNl(in, k) - 1)

\* How many prompts were printed, one before each read.
Prompts == Cardinality({i \in 1..Len(out) : out[i] = "prompt"})

\* The lines get_email_input is to accept: neither empty nor oversized, and
\* accepted by is_valid_email.
Acceptable(in) ==
    {k \in 1..LineCount(in) :
        /\ LineOf(in, k) # <<>>
        /\ Len(LineOf(in, k)) < MAX_EMAIL_LENGTH
        /\ is_valid_email(LineOf(in, k))}

\* ------------------------------------------------------------------------
\* C6
\* ------------------------------------------------------------------------

\* C6: when main has exited, either the input held a line to accept,
\* get_email_input returned true with the first such line in user_email and
\* the status is 0, or it held none, a read hit end-of-input,
\* get_email_input returned false and the status is 1.
C6_FirstAcceptedLine ==
    pc = "exited" =>
        IF Acceptable(stdin) # {}
        THEN /\ result
             /\ user_email = LineOf(stdin, Min(Acceptable(stdin)))
             /\ status = 0
        ELSE /\ ~result
             /\ \E i \in 1..Len(out) : out[i] = "read_failed"
             /\ status = 1

\* ------------------------------------------------------------------------
\* C7
\* ------------------------------------------------------------------------

\* C7: in a run of get_email_input, is_valid_email is never called on an
\* empty string nor on one of MAX_EMAIL_LENGTH characters or more.
C7_ValidatorInput ==
    vpc = "ret" =>
        /\ email # NULL
        /\ Len(email) >= 1
        /\ Len(email) < MAX_EMAIL_LENGTH

\* is_valid_email was called on a line after an empty line and an oversized
\* line had been turned away.
C7_Witness ==
    /\ vpc = "ret"
    /\ \E i \in 1..Len(out) : out[i] = "empty"
    /\ \E i \in 1..Len(out) : out[i] = "too_long"
    /\ out[Len(out)] \in {"valid", "invalid"}

\* ------------------------------------------------------------------------
\* C8
\* ------------------------------------------------------------------------

\* C8: each read of the loop starts at the first character of the input
\* line after the ones the earlier reads took: after k reads, at the start
\* of line k + 1.
C8_LineAligned ==
    pc = "loop" => pos = NthNl(stdin, Prompts)

\* ------------------------------------------------------------------------
\* The runs on inputs without a line of exactly MAX_EMAIL_LENGTH characters
\* ------------------------------------------------------------------------
NoLineOfMax(in) ==
    \A k \in 1..LineCount(in) : Len(LineOf(in, k)) # MAX_EMAIL_LENGTH

\* On such inputs every read starts at the start of the next line.
LineAlignedWithoutMaxLine ==
    NoLineOfMax(stdin) => C8_LineAligned

\* On such inputs the first acceptable line is the one returned.
FirstAcceptedWithoutMaxLine ==
    NoLineOfMax(stdin) => C6_FirstAcceptedLine

====
